---- MODULE Spec2Model ----
(***************************************************************************)
(* Model of src/parse.py: the Issue record with its equality and hash,     *)
(* the per-revision issue store of Parser (a Python set, which keeps the   *)
(* hash each member had when it was inserted), the single-line parser      *)
(* CppCheck, the multi-line buffered parser Clang/GCC and the JSON parser  *)
(* Coverity.                                                               *)
(*                                                                         *)
(* A Python str is modelled as a sequence of tokens.  A token is either    *)
(* one character that the regular expressions of parse.py tell apart       *)
(* ("[", "]", "(", ")", ":", "/", " ", a decimal digit) or a word made of  *)
(* other characters only, so that matching over tokens is matching over    *)
(* characters.  Concatenation of str is \o.                                *)
(***************************************************************************)
EXTENDS Integers, Sequences, FiniteSets, TLC

\* ------------------------------------------------------------------ bounds
MaxIssues == 2
MaxBuffer == 2

Revisions == {"r1", "r2"}
Instances == {1, 2}

\* ------------------------------------------------------------ str helpers
DigitTokens == {"0", "1", "2", "3", "4", "5", "6", "7", "8", "9"}

DigitVal(d) ==
    CASE d = "0" -> 0 [] d = "1" -> 1 [] d = "2" -> 2 [] d = "3" -> 3
      [] d = "4" -> 4 [] d = "5" -> 5 [] d = "6" -> 6 [] d = "7" -> 7
      [] d = "8" -> 8 [] d = "9" -> 9

RECURSIVE ToInt(_)
ToInt(ds) ==
    IF ds = <<>> THEN 0
    ELSE 10 * ToInt(SubSeq(ds, 1, Len(ds) - 1)) + DigitVal(ds[Len(ds)])

\* the characters of a word token; a one-character token is itself
Chars(tok) ==
    CASE tok = "mkfs" -> <<"m", "k", "f", "s">>
      [] tok = "xmkfs" -> <<"x", "m", "k", "f", "s">>
      [] tok = "copy" -> <<"c", "o", "p", "y">>
      [] tok = "src" -> <<"s", "r", "c">>
      [] tok = "a.c" -> <<"a", ".", "c">>
      [] tok = "b.c" -> <<"b", ".", "c">>
      [] OTHER -> <<tok>>

RECURSIVE Flatten(_)
Flatten(s) == IF s = <<>> THEN <<>> ELSE Chars(Head(s)) \o Flatten(Tail(s))

\* s[-n:] of Python, over characters
LastChars(s, n) ==
    LET cs == Flatten(s)
    IN  IF Len(cs) <= n THEN cs ELSE SubSeq(cs, Len(cs) - n + 1, Len(cs))

\* smallest i in lo..Len(s) with s[i] = tok, or 0
FirstPos(s, tok, lo) ==
    LET I == {i \in lo..Len(s) : s[i] = tok}
    IN  IF I = {} THEN 0 ELSE CHOOSE i \in I : \A j \in I : i <= j

\* largest i in lo..hi with s[i] = tok, or 0
LastPos(s, tok, lo, hi) ==
    LET I == {i \in lo..hi : s[i] = tok}
    IN  IF I = {} THEN 0 ELSE CHOOSE i \in I : \A j \in I : i >= j

\* end of the longest run of digits that starts at lo (lo - 1 when empty)
DigitsEnd(s, lo) ==
    LET I == {i \in lo..Len(s) : \A j \in lo..i : s[j] \in DigitTokens}
    IN  IF I = {} THEN lo - 1 ELSE CHOOSE i \in I : \A j \in I : i >= j

\* s[lo..] starts with the tokens of lit
StartsAt(s, lo, lit) ==
    /\ lo + Len(lit) - 1 <= Len(s)
    /\ \A k \in 1..Len(lit) : s[lo + k - 1] = lit[k]

\* ------------------------------------------------------------- Categories
Categories == {"UNKNOWN", "STYLE", "ERROR", "SECURITY"}

\* ------------------------------------------------------------------ Issue
\* Issue.__init__: index starts at 0, _hash is custom_hash
Issue(file, line, category, text, custom_hash) ==
    [file |-> file, line |-> line, category |-> category, text |-> text,
     index |-> 0, custom_hash |-> custom_hash]

\* Issue.extendText
extendText(issue, text) == [issue EXCEPT !.text = @ \o <<"\n">> \o text]

\* Issue.__eq__
Eq(self, issue) ==
    IF self.custom_hash # "" /\ issue.custom_hash # ""
    THEN self.custom_hash = issue.custom_hash
    ELSE /\ self.file = issue.file
         /\ self.category = issue.category
         /\ self.text = self.text

\* Issue.__hash__: the hash of the tuple, taken to be the tuple
Hash(self) ==
    <<self.file, self.category, self.text, self.index, self.custom_hash>>

\* ------------------------------------------------------ Python set of Issue
\* A member of a set is the object (id), the hash it had when it was
\* inserted (shash) and the object's present fields (obj).
Entry(id, obj) == [id |-> id, shash |-> Hash(obj), obj |-> obj]

\* lookup of key with hash h in set S: same stored hash, then identity or ==
Lookup(S, id, obj, h) ==
    \E e \in S : e.shash = h /\ (e.id = id \/ Eq(e.obj, obj))

\* `issue in S`: hashes the issue as it is now
Contains(S, id, obj) == Lookup(S, id, obj, Hash(obj))

\* `A - B` on sets: probes B with the hash stored in A
SetDifference(A, B) == {a \in A : ~Lookup(B, a.id, a.obj, a.shash)}


\* ------------------------------------------------------ results of a call
NoIssue == Issue(<<>>, 0, "UNKNOWN", <<>>, "")

\* `return None`
None == [kind |-> "None", exc |-> "", issue |-> NoIssue]

\* `return issue`
Return(issue) == [kind |-> "Issue", exc |-> "", issue |-> issue]

\* an exception that leaves the function
Raise(exc) == [kind |-> "raise", exc |-> exc, issue |-> NoIssue]

\* re.match: the match object (its groups) or None
NoMatch == [ok |-> FALSE, groups |-> <<>>]

Match(groups) == [ok |-> TRUE, groups |-> groups]

\* ---------------------------------------------------------------- CppCheck
\* CppCheck.compile: ^\[([^:]+)/([^:/]+):([0-9]+)\]: \(([^)]+)\) (.*)$
\* with c1 the first ":", sl the last "/" before it, de the end of the digits
\* after it and rp the first ")" after "]: ("
CppCheck_re_groups(s, c1, sl, de, rp) ==
    IF /\ Len(s) >= 1
       /\ s[1] = "["
       /\ c1 # 0
       /\ sl > 2
       /\ sl < c1 - 1
       /\ de >= c1 + 1
       /\ StartsAt(s, de + 1, <<"]", ":", " ", "(">>)
       /\ rp > de + 5
       /\ StartsAt(s, rp, <<")", " ">>)
    THEN Match(<<SubSeq(s, 2, sl - 1), SubSeq(s, sl + 1, c1 - 1),
                 SubSeq(s, c1 + 1, de), SubSeq(s, de + 5, rp - 1),
                 SubSeq(s, rp + 2, Len(s))>>)
    ELSE NoMatch

CppCheck_re_type(s, c1, sl, de) ==
    CppCheck_re_groups(s, c1, sl, de, FirstPos(s, ")", de + 5))

CppCheck_re_path(s, c1) ==
    CppCheck_re_type(s, c1, IF c1 = 0 THEN 0 ELSE LastPos(s, "/", 2, c1 - 1),
                     DigitsEnd(s, c1 + 1))

CppCheck_re(s) == CppCheck_re_path(s, FirstPos(s, ":", 2))

CppCheck_DIR == 1
CppCheck_FILE == 2
CppCheck_LINE == 3
CppCheck_CATEGORY == 4
CppCheck_TEXT == 5

\* CppCheck.get_category
get_category(string) == IF string = <<"style">> THEN "STYLE" ELSE "ERROR"

\* the try block of CppCheck.parse after `matches = self.re.match(line)`
CppCheck_matched(line, mkfsOnly, matches) ==
    IF Flatten(line) = <<>> THEN Raise("IndexError")
    ELSE IF Flatten(line)[1] # "[" THEN None
    ELSE IF ~matches.ok THEN Raise("AttributeError")
    ELSE IF mkfsOnly /\ LastChars(matches.groups[CppCheck_DIR], 4) # Chars("mkfs")
         THEN None
    ELSE Return(Issue(matches.groups[CppCheck_DIR] \o matches.groups[CppCheck_FILE],
                      ToInt(matches.groups[CppCheck_LINE]),
                      get_category(matches.groups[CppCheck_CATEGORY]),
                      matches.groups[CppCheck_TEXT],
                      ""))

\* the body of the try block of CppCheck.parse
CppCheck_try(line, mkfsOnly) ==
    CppCheck_matched(line, mkfsOnly, CppCheck_re(line))

\* the except clause of CppCheck.parse: every exception becomes None
CppCheck_except(r) == IF r.kind = "raise" THEN None ELSE r

\* CppCheck.parse without its except clause
CppCheck_parse_NoExcept(line, mkfsOnly) == CppCheck_try(line, mkfsOnly)

\* CppCheck.parse: the bare except turns every exception into None
CppCheck_parse(line, mkfsOnly) == CppCheck_except(CppCheck_try(line, mkfsOnly))

\* ------------------------------------------------------------- Clang / GCC
Clang_DIR == 1
Clang_FILE == 2
Clang_LINE == 3
Clang_COLUMN == 4
Clang_TYPE == 5
Clang_TEXT == 6
Clang_FLAG == 7

\* Clang.compile:
\*   re1 ^([^/]+)/([^:]+):([0-9]+):([0-9]+): ([^:]+): (.+) \[([^][]+)\]$
\*   re2 ^([^/]+)/([^:]+):([0-9]+):([0-9]+): ([^:]+): (.+)$
\* with s1 the first "/", c1 the first ":" after it, d1 and d2 the ends of the
\* two runs of digits, c3 the first ":" after them and lb the last "["
Clang_re_groups(s, withFlag, s1, c1, d1, d2, c3, lb) ==
    IF ~(/\ s1 > 1
         /\ c1 > s1 + 1
         /\ d1 >= c1 + 1
         /\ StartsAt(s, d1 + 1, <<":">>)
         /\ d2 >= d1 + 2
         /\ StartsAt(s, d2 + 1, <<":", " ">>)
         /\ c3 > d2 + 3
         /\ StartsAt(s, c3, <<":", " ">>))
    THEN NoMatch
    ELSE IF ~withFlag
    THEN IF Len(s) >= c3 + 2
         THEN Match(<<SubSeq(s, 1, s1 - 1), SubSeq(s, s1 + 1, c1 - 1),
                      SubSeq(s, c1 + 1, d1), SubSeq(s, d1 + 2, d2),
                      SubSeq(s, d2 + 3, c3 - 1), SubSeq(s, c3 + 2, Len(s))>>)
         ELSE NoMatch
    ELSE IF /\ s[Len(s)] = "]"
            /\ lb - 2 >= c3 + 2
            /\ s[lb - 1] = " "
            /\ lb + 1 <= Len(s) - 1
            /\ \A i \in (lb + 1)..(Len(s) - 1) : s[i] # "]"
    THEN Match(<<SubSeq(s, 1, s1 - 1), SubSeq(s, s1 + 1, c1 - 1),
                 SubSeq(s, c1 + 1, d1), SubSeq(s, d1 + 2, d2),
                 SubSeq(s, d2 + 3, c3 - 1), SubSeq(s, c3 + 2, lb - 2),
                 SubSeq(s, lb + 1, Len(s) - 1)>>)
    ELSE NoMatch

Clang_re_type(s, withFlag, s1, c1, d1, d2) ==
    Clang_re_groups(s, withFlag, s1, c1, d1, d2, FirstPos(s, ":", d2 + 3),
                    LastPos(s, "[", 1, Len(s)))

Clang_re_column(s, withFlag, s1, c1, d1) ==
    Clang_re_type(s, withFlag, s1, c1, d1, DigitsEnd(s, d1 + 2))

Clang_re_line(s, withFlag, s1, c1) ==
    Clang_re_column(s, withFlag, s1, c1, DigitsEnd(s, c1 + 1))

Clang_re_file(s, withFlag, s1) ==
    Clang_re_line(s, withFlag, s1, IF s1 = 0 THEN 0 ELSE FirstPos(s, ":", s1 + 1))

Clang_re(s, withFlag) == Clang_re_file(s, withFlag, FirstPos(s, "/", 1))

StyleFlags ==
    {"-Wdiscarded-qualifiers", "-Wshadow", "-Wunused-parameter",
     "-Wpointer-arith", "-Wunused-but-set-variable", "-Wstrict-prototypes",
     "-Wempty-body", "-Wmissing-field-initializers", "-Wtype-limits",
     "-Wshift-negative-value", "-Wsign-compare",
     "-Wincompatible-pointer-types-discards-qualifiers", "-Wcast-align",
     "-Wformat-nonliteral"}

ErrorFlags == {"-Wfloat-equal"}

\* the category of the table of Clang.get_issue_type for a flag
flag_category(flag) ==
    IF Len(flag) = 1 /\ flag[1] \in StyleFlags THEN "STYLE"
    ELSE IF Len(flag) = 1 /\ flag[1] \in ErrorFlags THEN "ERROR"
    ELSE "UNKNOWN"

\* Clang.get_issue_type: a match of re2 has no group FLAG (IndexError)
get_issue_type(match) ==
    IF Len(match.groups) < Clang_FLAG THEN "UNKNOWN"
    ELSE flag_category(match.groups[Clang_FLAG])

\* the first buffered line after the first one that the pattern matches,
\* as a position in the buffer, or 0 (the while loop runs into IndexError)
FirstMatch(buf, withFlag) ==
    LET I == {i \in 2..Len(buf) : Clang_re(buf[i], withFlag).ok}
    IN  IF I = {} THEN 0 ELSE CHOOSE i \in I : \A j \in I : i <= j

\* Clang.parse_buffer after the two loops, for the match they found
parse_buffer_issue(match, mkfsOnly) ==
    IF mkfsOnly /\ Flatten(match.groups[Clang_DIR]) # Chars("mkfs")
    THEN None
    ELSE Return(Issue(match.groups[Clang_DIR] \o <<"/">> \o match.groups[Clang_FILE],
                      ToInt(match.groups[Clang_LINE]),
                      get_issue_type(match),
                      match.groups[Clang_TEXT],
                      ""))

\* Clang.parse_buffer with m1, m2 the lines the loops over re1 and re2 stop at
parse_buffer_loops(buf, mkfsOnly, m1, m2) ==
    IF m1 = 0 /\ m2 = 0 THEN Raise("IndexError")
    ELSE parse_buffer_issue(IF m1 # 0 THEN Clang_re(buf[m1], TRUE)
                            ELSE Clang_re(buf[m2], FALSE), mkfsOnly)

\* Clang.parse_buffer
parse_buffer(buf, mkfsOnly) ==
    parse_buffer_loops(buf, mkfsOnly, FirstMatch(buf, TRUE), FirstMatch(buf, FALSE))

HeaderLines == {<<"CURRENT", " ", "DEFECTS">>, <<"===============">>}

\* Clang.parse that keeps the buffer when parse_buffer finds no diagnostic
Clang_parse_flush_KeepOnIndexError(buf, line, r) ==
    IF line \in HeaderLines
    THEN [res |-> None, buf |-> buf, assigned |-> FALSE]
    ELSE IF Len(Flatten(line)) # 0
    THEN [res |-> None, buf |-> Append(buf, line), assigned |-> FALSE]
    ELSE IF r.kind = "raise"
    THEN [res |-> None, buf |-> buf, assigned |-> FALSE]
    ELSE [res |-> r, buf |-> <<>>, assigned |-> TRUE]

\* Clang.parse for r the outcome of parse_buffer
Clang_parse_flush(buf, line, r) ==
    IF line \in HeaderLines
    THEN [res |-> None, buf |-> buf, assigned |-> FALSE]
    ELSE IF Len(Flatten(line)) # 0
    THEN [res |-> None, buf |-> Append(buf, line), assigned |-> FALSE]
    ELSE IF r.kind = "raise" /\ r.exc = "IndexError"
    THEN [res |-> None, buf |-> <<>>, assigned |-> TRUE]
    ELSE IF r.kind = "raise"
    THEN [res |-> r, buf |-> buf, assigned |-> FALSE]
    ELSE [res |-> r, buf |-> <<>>, assigned |-> TRUE]

\* Clang.parse on the list self._buffer resolves to: the result, the list
\* after the call, and whether self._buffer was assigned a new list
Clang_parse(buf, line, mkfsOnly) ==
    Clang_parse_flush(buf, line, parse_buffer(buf, mkfsOnly))

\* ---------------------------------------------------------------- Coverity
\* str.split('/'): the pieces between the separators
RECURSIVE Split(_)
Split(s) ==
    LET i == FirstPos(s, "/", 1)
    IN  IF i = 0 THEN <<s>>
        ELSE <<SubSeq(s, 1, i - 1)>> \o Split(SubSeq(s, i + 1, Len(s)))

\* os.path.join(d, f) for pieces that hold no separator
path_join(d, f) == IF d = <<>> THEN f ELSE d \o <<"/">> \o f

\* Coverity.get_type
get_type(issue) ==
    LET kinds == issue.checkerProperties.issueKinds
        kind  == kinds[Len(kinds)]
    IN  IF kind = "QUALITY" THEN "STYLE"
        ELSE IF kind = "SECURITY" THEN "SECURITY"
        ELSE "UNKNOWN"

\* the main event the loop over issue['events'] ends with: the last one
\* flagged main, as a position, or 0 for None
main_event(events) ==
    LastPos([i \in 1..Len(events) |-> IF events[i].main THEN "main" ELSE ""],
            "main", 1, Len(events))

\* Coverity.run from `d,f = main['filePathname'].split('/')[-2:]` on
Coverity_main(issue, main, path, mkfsOnly) ==
    IF Len(path) < 2 THEN Raise("ValueError")
    ELSE IF mkfsOnly /\ LastChars(path[Len(path) - 1], 4) # Chars("mkfs") THEN None
    ELSE IF issue.checkerProperties.issueKinds = <<>> THEN Raise("IndexError")
    ELSE Return(Issue(path_join(path[Len(path) - 1], path[Len(path)]),
                      main.lineNumber, get_type(issue),
                      main.eventDescription, issue.mergeKey))

Coverity_event(issue, m, mkfsOnly) ==
    IF m = 0 THEN Raise("TypeError")
    ELSE Coverity_main(issue, issue.events[m],
                       Split(issue.events[m].filePathname), mkfsOnly)

\* one iteration of the loop of Coverity.run, up to the call of add_issue:
\* the Issue to add, None for `continue`, or the exception that ends run
Coverity_issue(issue, mkfsOnly) ==
    Coverity_event(issue, main_event(issue.events), mkfsOnly)

\* ------------------------------------------------------------------ Parser
\* add_issue without the loop that increments index
Bump_NoIncrement(S, id, issue) == issue

\* the loop `while issue in self._issues[revision]: issue.index += 1`
RECURSIVE Bump(_, _, _)
Bump(S, id, issue) ==
    IF Contains(S, id, issue)
    THEN Bump(S, id, [issue EXCEPT !.index = @ + 1])
    ELSE issue

\* set.add
SetAdd(S, id, issue) ==
    IF Contains(S, id, issue) THEN S ELSE S \cup {Entry(id, issue)}

\* Parser.add_issue on the mapping iss: the mapping after the call
add_issue(iss, rev, id, issue) ==
    LET S == IF rev \in DOMAIN iss THEN iss[rev] ELSE {}
    IN  [r \in DOMAIN iss \cup {rev} |->
            IF r = rev THEN SetAdd(S, id, Bump(S, id, issue)) ELSE iss[r]]

\* Parser.get_all_issues: the issues the generator yields
get_all_issues(iss, rev) == IF rev \in DOMAIN iss THEN iss[rev] ELSE {}

\* Parser.get_issues
get_issues(iss, rev, file) ==
    {e \in get_all_issues(iss, rev) : e.obj.file = file}

\* get_diff with `removed` computed as `added` is
get_diff_SameDifference(iss, older, newer) ==
    IF older \notin DOMAIN iss \/ newer \notin DOMAIN iss
    THEN [exc |-> "KeyError", added |-> {}, removed |-> {}]
    ELSE [exc |-> "",
          added |-> SetDifference(iss[newer], iss[older]),
          removed |-> SetDifference(iss[newer], iss[older])]

\* Parser.get_diff: (added, removed), or KeyError for a revision not stored
get_diff(iss, older, newer) ==
    IF older \notin DOMAIN iss \/ newer \notin DOMAIN iss
    THEN [exc |-> "KeyError", added |-> {}, removed |-> {}]
    ELSE [exc |-> "",
          added |-> SetDifference(iss[newer], iss[older]),
          removed |-> SetDifference(iss[older], iss[newer])]

\* ------------------------------------------------------------------ inputs
Classes == {"CppCheck", "Clang", "GCC", "Coverity"}

LineClasses == {"CppCheck", "Clang", "GCC"}

ClangClasses == {"Clang", "GCC"}

\* "[DIR/FILE:LINE]: (TYPE) TEXT"
CppLine(dir, file, digits, type, text) ==
    <<"[">> \o dir \o <<"/", file, ":">> \o digits
            \o <<"]", ":", " ", "(", type, ")", " ", text>>

\* "DIR/FILE:LINE:2: warning: TEXT" and the same with " [FLAG]"
ClangLine(dir, file, digits, text, flag) ==
    <<dir, "/", file, ":">> \o digits \o <<":", "2", ":", " ", "warning", ":", " ", text>>
        \o (IF flag = "" THEN <<>> ELSE <<" ", "[", flag, "]">>)

Blank == <<>>

CppLines ==
    {CppLine(<<"mkfs">>, "a.c", <<"1", "2">>, "style", "ta"),
     CppLine(<<"mkfs">>, "a.c", <<"7">>, "style", "ta"),
     CppLine(<<"mkfs">>, "a.c", <<"1", "2">>, "style", "tb"),
     CppLine(<<"src", "/", "xmkfs">>, "b.c", <<"1", "2">>, "error", "ta"),
     CppLine(<<"copy">>, "a.c", <<"1", "2">>, "style", "ta"),
     <<"[", "noise">>,
     <<"noise">>,
     Blank}

ClangLines ==
    {<<"note">>,
     ClangLine("mkfs", "a.c", <<"1">>, "ta", "-Wshadow"),
     <<"CURRENT", " ", "DEFECTS">>,
     Blank}

Event(main, dir, line, text) ==
    [main |-> main, filePathname |-> <<"/", "src", "/", dir, "/", "a.c">>,
     lineNumber |-> line, eventDescription |-> <<text>>]

CovIssue(key, kind, events) ==
    [mergeKey |-> key, checkerProperties |-> [issueKinds |-> <<kind>>],
     events |-> events]

CoverityIssues ==
    {CovIssue("K1", "QUALITY", <<Event(FALSE, "copy", 9, "tc"), Event(TRUE, "mkfs", 1, "ta")>>),
     CovIssue("K1", "QUALITY", <<Event(TRUE, "mkfs", 5, "ta")>>),
     CovIssue("K1", "QUALITY", <<Event(TRUE, "mkfs", 1, "tb")>>),
     CovIssue("K2", "SECURITY", <<Event(TRUE, "mkfs", 1, "ta")>>),
     CovIssue("K3", "QUALITY", <<Event(TRUE, "copy", 1, "ta")>>),
     CovIssue("K4", "QUALITY", <<Event(FALSE, "mkfs", 1, "ta")>>)}


\* ------------------------------------------------------------------- state
VARIABLES
    cls,                  \* the class of each parser instance
    CHECK_FOR_MKFS_ONLY,  \* the module's flag, cleared by --all
    _issues,              \* per instance: revision -> set of Issue
    lastIssue,            \* per instance: id of the Issue added last, or 0
    Clang_buffer,         \* the list bound to the class attribute Clang._buffer
    _buffer,              \* per instance: the instance attribute _buffer, if set
    pc,                   \* per instance: "idle", or "running" inside run
    revision,             \* per instance: the argument of the run under way
    nextId,               \* the next Issue object to be constructed
    lastCall,             \* per instance: the latest call and its outcome
    addLog,               \* per instance: the add_issue calls made, in order
    swallowed,            \* per instance: parse caught an exception in this run
    block,                \* per instance: the lines of the log under way that
                          \* parse was handed since its last blank line
    nread,                \* per instance: the lines read from logs so far
    ran                   \* per instance: the revisions whose run has returned

\* the record of the logs, kept by the specifications that follow the lines
\* of each log (SpecLog) and left alone by the others
hist == <<block, nread, ran>>

vars == <<cls, CHECK_FOR_MKFS_ONLY, _issues, lastIssue, Clang_buffer, _buffer,
          pc, revision, nextId, lastCall, addLog, swallowed, block, nread, ran>>

NoAttr == [has |-> FALSE, val |-> <<>>]

\* arg: the mergeKey of a Coverity issue, the revision of a run that failed
Call(op, line, arg, res) ==
    [op |-> op, line |-> line, arg |-> arg, res |-> res]

\* the value of revision while no run is under way
NoRevision == "r1"

\* Parser.__init__ of every instance; Clang._buffer = [] of the class body.
\* GCC differs from Clang in _filename only: instance 1 is one of the three
\* parsers with code of their own, instance 2 is a GCC.
Init ==
    /\ cls \in {c \in [Instances -> Classes] : c[1] # "GCC" /\ c[2] = "GCC"}
    /\ CHECK_FOR_MKFS_ONLY \in BOOLEAN
    /\ _issues = [p \in Instances |-> <<>>]
    /\ lastIssue = [p \in Instances |-> 0]
    /\ Clang_buffer = <<>>
    /\ _buffer = [p \in Instances |-> NoAttr]
    /\ pc = [p \in Instances |-> "idle"]
    /\ revision = [p \in Instances |-> NoRevision]
    /\ nextId = 1
    /\ lastCall = [p \in Instances |-> Call("init", <<>>, "", None)]
    /\ addLog = [p \in Instances |-> <<>>]
    /\ swallowed = [p \in Instances |-> FALSE]
    /\ block = [p \in Instances |-> <<>>]
    /\ nread = [p \in Instances |-> 0]
    /\ ran = [p \in Instances |-> {}]

\* the list self._buffer resolves to
BufferOf(p) == IF _buffer[p].has THEN _buffer[p].val ELSE Clang_buffer

\* run and add_issue: the part of one loop iteration after the Issue is made
Store(p, res) ==
    IF res.kind = "Issue"
    THEN /\ nextId <= MaxIssues
         /\ _issues' = [_issues EXCEPT ![p] = add_issue(@, revision[p], nextId, res.issue)]
         /\ lastIssue' = [lastIssue EXCEPT ![p] = nextId]
         /\ nextId' = nextId + 1
         /\ addLog' = [addLog EXCEPT ![p] =
                Append(@, [rev |-> revision[p], id |-> nextId, issue |-> res.issue])]
    ELSE UNCHANGED <<_issues, lastIssue, nextId, addLog>>

\* run(revision): the log is opened and read
RunOpen(p, rev) ==
    /\ pc[p] = "idle"
    /\ pc' = [pc EXCEPT ![p] = "running"]
    /\ revision' = [revision EXCEPT ![p] = rev]
    /\ lastCall' = [lastCall EXCEPT ![p] = Call("open", <<>>, "", None)]
    /\ swallowed' = [swallowed EXCEPT ![p] = FALSE]
    /\ UNCHANGED <<cls, CHECK_FOR_MKFS_ONLY, _issues, lastIssue, Clang_buffer,
                   _buffer, nextId, addLog>>

\* run that empties the store before it opens the log
RunOpenFail_Reset(p, rev) ==
    /\ pc[p] = "idle"
    /\ _issues' = [_issues EXCEPT ![p] = <<>>]
    /\ lastCall' = [lastCall EXCEPT ![p] = Call("run", <<>>, rev, Raise("OSError"))]
    /\ UNCHANGED <<cls, CHECK_FOR_MKFS_ONLY, lastIssue, Clang_buffer,
                   _buffer, pc, revision, nextId, addLog, swallowed>>

\* run(revision): open, readlines or json.load raises
RunOpenFail(p, rev) ==
    /\ pc[p] = "idle"
    /\ lastCall' = [lastCall EXCEPT ![p] = Call("run", <<>>, rev, Raise("OSError"))]
    /\ UNCHANGED <<cls, CHECK_FOR_MKFS_ONLY, _issues, lastIssue, Clang_buffer,
                   _buffer, pc, revision, nextId, addLog, swallowed>>

\* Parser.run, one iteration for a line of CppCheck.log
RunLineCppCheck(p, line) ==
    /\ pc[p] = "running"
    /\ cls[p] = "CppCheck"
    /\ LET res == CppCheck_parse(line, CHECK_FOR_MKFS_ONLY)
       IN  /\ Store(p, res)
           /\ swallowed' = [swallowed EXCEPT ![p] =
                  @ \/ CppCheck_try(line, CHECK_FOR_MKFS_ONLY).kind = "raise"]
           /\ lastCall' = [lastCall EXCEPT ![p] = Call("parse", line, "", res)]
           /\ pc' = [pc EXCEPT ![p] = IF res.kind = "raise" THEN "idle" ELSE "running"]
           /\ revision' = [revision EXCEPT ![p] = IF res.kind = "raise" THEN NoRevision ELSE @]
    /\ UNCHANGED <<cls, CHECK_FOR_MKFS_ONLY, Clang_buffer, _buffer>>

\* Parser.run, one iteration for a line of Clang.log.cut or GCC.log.cut, with
\* at most max lines in the buffer
RunLineClangWithin(p, line, max) ==
    /\ pc[p] = "running"
    /\ cls[p] \in ClangClasses
    /\ LET out == Clang_parse(BufferOf(p), line, CHECK_FOR_MKFS_ONLY)
       IN  /\ Len(out.buf) <= max
           /\ Store(p, out.res)
           /\ swallowed' = [swallowed EXCEPT ![p] =
                  @ \/ (line = Blank /\ parse_buffer(BufferOf(p), CHECK_FOR_MKFS_ONLY).kind = "raise")]
           /\ lastCall' = [lastCall EXCEPT ![p] = Call("parse", line, "", out.res)]
           /\ pc' = [pc EXCEPT ![p] = IF out.res.kind = "raise" THEN "idle" ELSE "running"]
           /\ revision' = [revision EXCEPT ![p] = IF out.res.kind = "raise" THEN NoRevision ELSE @]
           /\ IF out.assigned
              THEN /\ _buffer' = [_buffer EXCEPT ![p] = [has |-> TRUE, val |-> out.buf]]
                   /\ UNCHANGED Clang_buffer
              ELSE IF _buffer[p].has
              THEN /\ _buffer' = [_buffer EXCEPT ![p].val = out.buf]
                   /\ UNCHANGED Clang_buffer
              ELSE /\ Clang_buffer' = out.buf
                   /\ UNCHANGED _buffer
    /\ UNCHANGED <<cls, CHECK_FOR_MKFS_ONLY>>

RunLineClang(p, line) == RunLineClangWithin(p, line, MaxBuffer)

\* Coverity.run, one iteration for an issue of the JSON document
RunIssueCoverity(p, issue) ==
    /\ pc[p] = "running"
    /\ cls[p] = "Coverity"
    /\ LET res == Coverity_issue(issue, CHECK_FOR_MKFS_ONLY)
       IN  /\ Store(p, res)
           /\ lastCall' = [lastCall EXCEPT ![p] = Call("issue", <<>>, issue.mergeKey, res)]
           /\ pc' = [pc EXCEPT ![p] = IF res.kind = "raise" THEN "idle" ELSE "running"]
           /\ revision' = [revision EXCEPT ![p] = IF res.kind = "raise" THEN NoRevision ELSE @]
    /\ UNCHANGED <<cls, CHECK_FOR_MKFS_ONLY, Clang_buffer, _buffer, swallowed>>

\* run(revision): the loop is over, run returns
RunReturn(p) ==
    /\ pc[p] = "running"
    /\ pc' = [pc EXCEPT ![p] = "idle"]
    /\ revision' = [revision EXCEPT ![p] = NoRevision]
    /\ lastCall' = [lastCall EXCEPT ![p] = Call("run", <<>>, "", None)]
    /\ swallowed' = [swallowed EXCEPT ![p] = FALSE]
    /\ UNCHANGED <<cls, CHECK_FOR_MKFS_ONLY, _issues, lastIssue, Clang_buffer,
                   _buffer, nextId, addLog>>

\* the parser the checked behaviours drive
Main == 1

Next ==
    \/ \E rev \in Revisions : RunOpen(Main, rev) /\ UNCHANGED hist
    \/ \E rev \in Revisions : RunOpenFail(Main, rev) /\ UNCHANGED hist
    \/ \E line \in CppLines : RunLineCppCheck(Main, line) /\ UNCHANGED hist
    \/ \E line \in ClangLines : RunLineClang(Main, line) /\ UNCHANGED hist
    \/ \E issue \in CoverityIssues : RunIssueCoverity(Main, issue) /\ UNCHANGED hist
    \/ RunReturn(Main) /\ UNCHANGED hist

Spec == Init /\ [][Next]_vars


\* ------------------------------------------------------------- extendText
MaxText == 3

ExtTexts == {<<"tx">>}

\* self.lastIssue.extendText(text): the object is changed where it is stored,
\* the set keeps the hash it stored at insertion
ExtendText(p, text) ==
    /\ lastIssue[p] # 0
    /\ \E r \in DOMAIN _issues[p] : \E e \in _issues[p][r] :
          /\ e.id = lastIssue[p]
          /\ Len(e.obj.text) + 1 + Len(text) <= MaxText
          /\ _issues' = [_issues EXCEPT ![p][r] =
                (@ \ {e}) \cup {[e EXCEPT !.obj = extendText(e.obj, text)]}]
    /\ lastCall' = [lastCall EXCEPT ![p] = Call("extendText", text, "", None)]
    /\ UNCHANGED <<cls, CHECK_FOR_MKFS_ONLY, lastIssue, Clang_buffer, _buffer,
                   pc, revision, nextId, addLog, swallowed>>

NextExt ==
    \/ Next
    \/ \E text \in ExtTexts : ExtendText(Main, text) /\ UNCHANGED hist

SpecExt == Init /\ [][NextExt]_vars

\* ------------------------------------------------- the lines of each log
MaxLines == 5

\* a context line, two diagnostics with a flag, a header, the blank line
LogLines ==
    {<<"note">>,
     ClangLine("mkfs", "a.c", <<"1">>, "ta", "-Wshadow"),
     ClangLine("mkfs", "b.c", <<"7">>, "tb", "-Wfloat-equal"),
     <<"===============">>,
     Blank}

\* Parser.__init__ of a Clang
InitLog == Init /\ cls[Main] = "Clang"

\* run(revision) opens the log: none of its lines is read yet; the main loop
\* runs a parser once on each revision
LogOpen(p, rev) ==
    /\ rev \notin ran[p]
    /\ RunOpen(p, rev)
    /\ block' = [block EXCEPT ![p] = <<>>]
    /\ UNCHANGED <<nread, ran>>

\* read_lines hands one more line of the log to parse
LogLine(p, line) ==
    /\ nread[p] < MaxLines
    /\ RunLineClangWithin(p, line, MaxLines)
    /\ nread' = [nread EXCEPT ![p] = @ + 1]
    /\ block' = [block EXCEPT ![p] =
           IF line = Blank THEN <<>>
           ELSE IF line \in HeaderLines THEN @
           ELSE Append(@, line)]
    /\ UNCHANGED ran

\* the log is exhausted and run returns
LogReturn(p) ==
    /\ RunReturn(p)
    /\ ran' = [ran EXCEPT ![p] = @ \cup {revision[p]}]
    /\ block' = [block EXCEPT ![p] = <<>>]
    /\ UNCHANGED nread

NextLog ==
    \/ \E rev \in Revisions : LogOpen(Main, rev)
    \/ \E line \in LogLines : LogLine(Main, line)
    \/ LogReturn(Main)

SpecLog == InitLog /\ [][NextLog]_vars

\* --------------------------------------------------------- two parsers
\* each of the two parsers runs on the log of one revision
TwoRevisions == {"r1"}

\* a context line, a diagnostic with a flag, the blank line
TwoLines ==
    {<<"note">>,
     ClangLine("mkfs", "a.c", <<"1">>, "ta", "-Wshadow"),
     Blank}

\* Parser.__init__ of a Clang and of a GCC
InitTwo == Init /\ cls[Main] = "Clang"

\* a call of run on the parser p, or one iteration of its loop
StepOf(p) ==
    \/ \E rev \in TwoRevisions : RunOpen(p, rev)
    \/ \E line \in TwoLines : RunLineClang(p, line)
    \/ RunReturn(p)

\* the runs of the two parsers, interleaved line by line
NextTwo ==
    \/ \E p \in Instances : \E rev \in TwoRevisions : RunOpen(p, rev) /\ UNCHANGED hist
    \/ \E p \in Instances : \E line \in TwoLines : RunLineClang(p, line) /\ UNCHANGED hist
    \/ \E p \in Instances : RunReturn(p) /\ UNCHANGED hist

SpecTwo == InitTwo /\ [][NextTwo]_vars

\* ------------------------------------------------- blank and header lines
\* a diagnostic without a flag outside mkfs, a diagnostic with a flag in mkfs,
\* the two header lines, the blank line
FlushLines ==
    {ClangLine("copy", "a.c", <<"1">>, "ta", ""),
     ClangLine("mkfs", "a.c", <<"1">>, "ta", "-Wshadow"),
     <<"CURRENT", " ", "DEFECTS">>,
     <<"===============">>,
     Blank}

NextFlush ==
    \/ \E rev \in TwoRevisions : RunOpen(Main, rev) /\ UNCHANGED hist
    \/ \E line \in FlushLines : RunLineClang(Main, line) /\ UNCHANGED hist
    \/ RunReturn(Main) /\ UNCHANGED hist

SpecFlush == InitLog /\ [][NextFlush]_vars

\* ------------------------------------------------------------- properties
\* the issues stored by the parser, in any revision
Stored == UNION {_issues[Main][r] : r \in DOMAIN _issues[Main]}

\* the identity contract: custom_hash when both carry one, else the tuple
IdentityTuple(a) == <<a.file, a.category, a.text, a.index>>

Identity(a, b) ==
    IF a.custom_hash # "" /\ b.custom_hash # ""
    THEN a.custom_hash = b.custom_hash
    ELSE IdentityTuple(a) = IdentityTuple(b)

Diff(r1, r2) == get_diff(_issues[Main], r1, r2)

\* C1: for issues that do not both carry a custom_hash, a == b exactly when
\* their (file, category, text, index) tuples are equal.
C1_EqIffTupleEqual ==
    \A a \in Stored : \A b \in Stored :
        ~(a.obj.custom_hash # "" /\ b.obj.custom_hash # "") =>
            (Eq(a.obj, b.obj) <=> IdentityTuple(a.obj) = IdentityTuple(b.obj))

\* C2: get_diff(older, newer) is (newer minus older, older minus newer) with
\* membership decided by the identity contract, never by line.
C2_DiffByIdentity ==
    \A older \in DOMAIN _issues[Main] : \A newer \in DOMAIN _issues[Main] :
        /\ Diff(older, newer).added =
              {n \in _issues[Main][newer] :
                  ~\E o \in _issues[Main][older] : Identity(o.obj, n.obj)}
        /\ Diff(older, newer).removed =
              {o \in _issues[Main][older] :
                  ~\E n \in _issues[Main][newer] : Identity(o.obj, n.obj)}

\* C3: for Coverity an issue whose mergeKey is in both revisions is in
\* neither added nor removed, whatever its line, file or description.
C3_MergeKeyIsIdentity ==
    cls[Main] = "Coverity" =>
        \A r1 \in DOMAIN _issues[Main] : \A r2 \in DOMAIN _issues[Main] :
            \A a \in _issues[Main][r1] : \A b \in _issues[Main][r2] :
                a.obj.custom_hash = b.obj.custom_hash =>
                    /\ a \notin Diff(r1, r2).removed
                    /\ b \notin Diff(r1, r2).added

\* the same (file, category, text), no custom hash
SameText(a, b) ==
    /\ a.custom_hash = "" /\ b.custom_hash = ""
    /\ a.file = b.file /\ a.category = b.category /\ a.text = b.text

\* the number of issues like the i-th one added to its revision before it
Before(i) ==
    Cardinality({j \in 1..(i - 1) :
        /\ addLog[Main][j].rev = addLog[Main][i].rev
        /\ SameText(addLog[Main][j].issue, addLog[Main][i].issue)})

\* C4: the k-th issue with one (file, category, text) and no custom hash
\* added to a revision is stored with index k - 1 and get_all_issues yields it.
C4_IndexCountsDuplicates ==
    \A i \in 1..Len(addLog[Main]) :
        addLog[Main][i].issue.custom_hash = "" =>
            \E e \in get_all_issues(_issues[Main], addLog[Main][i].rev) :
                /\ e.id = addLog[Main][i].id
                /\ e.obj = [addLog[Main][i].issue EXCEPT !.index = Before(i)]

C4_Witness ==
    \E r \in DOMAIN _issues[Main] : \E a \in _issues[Main][r] : \E b \in _issues[Main][r] :
        /\ SameText(a.obj, b.obj)
        /\ a.id < b.id
        /\ a.obj.index = 0
        /\ b.obj.index = 1

\* C5: no two distinct issues stored in one revision's set compare equal.
C5_NoTwoStoredEqual ==
    \A r \in DOMAIN _issues[Main] :
        \A a \in _issues[Main][r] : \A b \in _issues[Main][r] :
            a.id # b.id => ~Eq(a.obj, b.obj)

\* C6: get_diff(r, r) is (empty, empty), and get_diff(r1, r2) = (A, B)
\* implies get_diff(r2, r1) = (B, A).
C6_DiffSelfEmptyAndAntisymmetric ==
    \A r1 \in DOMAIN _issues[Main] : \A r2 \in DOMAIN _issues[Main] :
        /\ Diff(r1, r1).exc = ""
        /\ Diff(r1, r1).added = {}
        /\ Diff(r1, r1).removed = {}
        /\ Diff(r1, r2).exc = ""
        /\ Diff(r2, r1).added = Diff(r1, r2).removed
        /\ Diff(r2, r1).removed = Diff(r1, r2).added

C6_Witness ==
    \E r1 \in DOMAIN _issues[Main] : \E r2 \in DOMAIN _issues[Main] :
        /\ Diff(r1, r2).added # {}
        /\ Diff(r1, r2).removed # {}

\* C7: a run that fails to open or read its log fails with an error and
\* leaves the stored set of every other revision as it was.
C7_FailedRunKeepsOtherRevisions ==
    [][(lastCall'[Main].op = "run" /\ lastCall'[Main].res.kind = "raise") =>
          \A r \in DOMAIN _issues[Main] :
              r # lastCall'[Main].arg =>
                  /\ r \in DOMAIN _issues'[Main]
                  /\ _issues'[Main][r] = _issues[Main][r]]_vars

C7_Witness ==
    /\ lastCall[Main].op = "run"
    /\ lastCall[Main].res.kind = "raise"
    /\ \E r \in DOMAIN _issues[Main] :
          r # lastCall[Main].arg /\ _issues[Main][r] # {}

\* a line of CppCheck.log that is an issue the filter keeps
WellFormedLine(line) ==
    /\ CppCheck_re(line).ok
    /\ CHECK_FOR_MKFS_ONLY =>
          LastChars(CppCheck_re(line).groups[CppCheck_DIR], 4) = Chars("mkfs")

\* the diagnostics with a flag among the lines of a block after the first
Diagnostics(buf) == {i \in 2..Len(buf) : Clang_re(buf[i], TRUE).ok}

\* a block with one diagnostic, which the filter keeps
WellFormedBlock(buf) ==
    /\ Cardinality(Diagnostics(buf)) = 1
    /\ \A i \in Diagnostics(buf) :
          CHECK_FOR_MKFS_ONLY =>
              Flatten(Clang_re(buf[i], TRUE).groups[Clang_DIR]) = Chars("mkfs")

\* the parse call of this step is handed a well-formed entry with this text
WellFormedEntry(text) ==
    IF cls[Main] = "CppCheck"
    THEN /\ WellFormedLine(lastCall'[Main].line)
         /\ text = CppCheck_re(lastCall'[Main].line).groups[CppCheck_TEXT]
    ELSE /\ lastCall'[Main].line = Blank
         /\ WellFormedBlock(BufferOf(Main))
         /\ \A i \in Diagnostics(BufferOf(Main)) :
               text = Clang_re(BufferOf(Main)[i], TRUE).groups[Clang_TEXT]

C8_NeverRaises ==
    (cls[Main] \in LineClasses /\ lastCall[Main].op = "parse") =>
        /\ lastCall[Main].res.kind \in {"Issue", "None"}
        /\ pc[Main] = "running"

C8_StoredAfterMalformed ==
    \A text \in {<<"ta">>, <<"tb">>} :
        (/\ cls[Main] \in LineClasses
         /\ swallowed[Main]
         /\ lastCall'[Main].op = "parse"
         /\ WellFormedEntry(text)) =>
            \E e \in get_all_issues(_issues'[Main], revision[Main]) :
                e.id = nextId /\ e.obj.text = text

\* C8: parse of the line-oriented parsers returns an Issue or None and never
\* raises, run goes on, and a well-formed issue that follows a malformed
\* entry of the log is stored.
C8_ParseNeverAbortsRun ==
    []C8_NeverRaises /\ [][C8_StoredAfterMalformed]_vars

C8_Witness ==
    /\ cls[Main] \in LineClasses
    /\ swallowed[Main]
    /\ lastCall[Main].op = "parse"
    /\ lastCall[Main].res.kind = "Issue"
    /\ \E e \in get_all_issues(_issues[Main], revision[Main]) :
          e.id = lastIssue[Main] /\ e.obj.text = lastCall[Main].res.issue.text

\* C9: after extendText on lastIssue the issue is still a member of its
\* revision's set, get_diff(r, r) is empty and no two stored issues are equal.
C9_ExtendTextKeepsSet ==
    lastCall[Main].op = "extendText" =>
        \A r \in DOMAIN _issues[Main] :
            /\ \A e \in _issues[Main][r] :
                  e.id = lastIssue[Main] => Contains(_issues[Main][r], e.id, e.obj)
            /\ Diff(r, r).added = {} /\ Diff(r, r).removed = {}
            /\ \A a \in _issues[Main][r] : \A b \in _issues[Main][r] :
                  a.id # b.id => ~Identity(a.obj, b.obj)

\* s ends with suffix, character by character
EndsWith(s, suffix) == LastChars(s, Len(Flatten(suffix))) = Flatten(suffix)

\* C10: CppCheck.parse of "[DIR/FILE:LINE]: (TYPE) TEXT" with a directory the
\* filter keeps returns an Issue with file ending in DIR/FILE, line LINE, text
\* TEXT and category STYLE for TYPE style, ERROR otherwise.
C10_CppCheckIssueFields ==
    (/\ cls[Main] = "CppCheck"
     /\ lastCall[Main].op = "parse"
     /\ WellFormedLine(lastCall[Main].line)) =>
        LET g == CppCheck_re(lastCall[Main].line).groups
            issue == lastCall[Main].res.issue
        IN  /\ lastCall[Main].res.kind = "Issue"
            /\ EndsWith(issue.file, g[CppCheck_DIR] \o <<"/">> \o g[CppCheck_FILE])
            /\ issue.line = ToInt(g[CppCheck_LINE])
            /\ issue.text = g[CppCheck_TEXT]
            /\ issue.category =
                  (IF g[CppCheck_CATEGORY] = <<"style">> THEN "STYLE" ELSE "ERROR")

\* a line of a block that neither pattern matches
ContextLine(line) ==
    /\ line # Blank
    /\ line \notin HeaderLines
    /\ ~Clang_re(line, FALSE).ok

\* a diagnostic with directory mkfs and a flag of the category table
WellFormedDiagnostic(line) ==
    /\ Clang_re(line, TRUE).ok
    /\ Clang_re(line, TRUE).groups[Clang_DIR] = <<"mkfs">>
    /\ Len(Clang_re(line, TRUE).groups[Clang_FLAG]) = 1
    /\ Clang_re(line, TRUE).groups[Clang_FLAG][1] \in StyleFlags \cup ErrorFlags

\* the Issue of a diagnostic: its file, its line, the category of its flag
IssueOf(line, issue) ==
    /\ Clang_re(line, TRUE).ok
    /\ issue.file = Clang_re(line, TRUE).groups[Clang_DIR] \o <<"/">>
                        \o Clang_re(line, TRUE).groups[Clang_FILE]
    /\ issue.line = ToInt(Clang_re(line, TRUE).groups[Clang_LINE])
    /\ issue.category = flag_category(Clang_re(line, TRUE).groups[Clang_FLAG])

C11_NoneBeforeBlank ==
    (cls[Main] \in ClangClasses /\ lastCall[Main].op = "parse"
        /\ lastCall[Main].line # Blank) =>
        lastCall[Main].res.kind = "None"

C11_OneIssueAtBlank ==
    (/\ cls[Main] \in ClangClasses
     /\ nread'[Main] # nread[Main]
     /\ lastCall'[Main].line = Blank
     /\ Len(block[Main]) = 2
     /\ ContextLine(block[Main][1])
     /\ WellFormedDiagnostic(block[Main][2])) =>
        /\ lastCall'[Main].res.kind = "Issue"
        /\ IssueOf(block[Main][2], lastCall'[Main].res.issue)
        /\ nextId' = nextId + 1
        /\ \E e \in get_all_issues(_issues'[Main], revision[Main]) :
              e.id = nextId /\ IssueOf(block[Main][2], e.obj)

\* C11: parse of the multi-line parser returns None on every non-blank line,
\* and the blank line that ends a block of the log made of one context line
\* and one well-formed diagnostic (directory mkfs, flag of the table) yields
\* exactly one Issue, with that diagnostic's file, line and category.
C11_IssueOnlyAtBlankLine ==
    []C11_NoneBeforeBlank /\ [][C11_OneIssueAtBlank]_vars

\* C12: once run has returned for two revisions, get_diff of the two does not
\* fail and returns the two differences of their sets of issues, a revision
\* whose run stored no issue counting as the empty set.
C12_DiffAfterRunsNeverFails ==
    \A older \in ran[Main] : \A newer \in ran[Main] :
        (pc[Main] = "idle" /\ older # newer) =>
            /\ Diff(older, newer).exc = ""
            /\ Diff(older, newer).added =
                  SetDifference(get_all_issues(_issues[Main], newer),
                                get_all_issues(_issues[Main], older))
            /\ Diff(older, newer).removed =
                  SetDifference(get_all_issues(_issues[Main], older),
                                get_all_issues(_issues[Main], newer))

\* the state of the parser p that a call on another parser is to leave alone
Independent(p) ==
    /\ _issues'[p] = _issues[p]
    /\ lastIssue'[p] = lastIssue[p]
    /\ BufferOf(p)' = BufferOf(p)

\* C13: a call on one parser instance changes neither the issue store nor the
\* pending line buffer of another instance.
C13_InstancesIndependent ==
    [][\A p \in Instances : \A q \in Instances \ {p} :
          StepOf(q) => Independent(p)]_vars

C14_AfterBlankOrHeader ==
    \A line \in FlushLines :
        RunLineClang(Main, line) =>
            /\ line = Blank => BufferOf(Main)' = <<>>
            /\ line \in HeaderLines =>
                  /\ BufferOf(Main)' = BufferOf(Main)
                  /\ lastCall'[Main].res = None

\* C14: after a parse call of the multi-line parser on a blank line the
\* buffer is empty, whether the block gave an issue, held no diagnostic, was
\* dropped by the directory filter or was empty; a parse call on a header
\* line leaves the buffer as it is and returns None.
C14_BlankLineClearsBuffer == [][C14_AfterBlankOrHeader]_vars

\* a blank line was parsed on a block without a diagnostic: the buffer is empty
C14_Witness ==
    /\ cls[Main] \in ClangClasses
    /\ lastCall[Main].op = "parse"
    /\ lastCall[Main].line = Blank
    /\ swallowed[Main]
    /\ lastCall[Main].res = None
    /\ BufferOf(Main) = <<>>
    /\ Clang_buffer # <<>>

C15_BlockOfOwnLines ==
    \A line \in LogLines :
        (LogLine(Main, line) /\ lastCall'[Main].res.kind = "Issue") =>
            /\ BufferOf(Main) = block[Main]
            /\ \E e \in get_all_issues(_issues'[Main], revision[Main]) :
                  /\ e.id = nextId
                  /\ \E i \in 1..Len(block[Main]) : IssueOf(block[Main][i], e.obj)

\* C15: an issue that run(r) of the multi-line parser stores under r is
\* extracted from a block made of lines of r's own log only: no line buffered
\* by an earlier run is part of a block emitted under r.
C15_IssuesFromOwnLog == [][C15_BlockOfOwnLines]_vars

====
